---- MODULE Spec2Model ----
(***************************************************************************)
(* Transductive Conformal Predictor (src/src/cp.rs).                       *)
(*                                                                         *)
(* The state is the CP<T> struct (ncm, epsilon, smooth, train_inputs), the *)
(* position of the running call (pc) with its locals, and the result       *)
(* handed back to the caller (pc = "returned", until the caller takes it   *)
(* and is free to make the next call).  A panic (expect on None, index    *)
(* out of bounds, unimplemented!) unwinds: it ends the run in "panicked"  *)
(* with the struct as the panicking statement left it.                     *)
(*                                                                         *)
(* f64 p-values are the quotients count / n_tmp of two small integers;     *)
(* they are kept as reduced fractions <<num, den>>, so two quotients are   *)
(* equal exactly when the fractions are.                                   *)
(***************************************************************************)
EXTENDS Integers, Sequences, FiniteSets, TLC

\* Bounds of the model.
MaxTrain == 2      \* longest inputs / targets sequence given to train
MaxTest  == 2      \* longest inputs sequence given to predict*
MaxLabel == 1      \* largest target value given to train

\* The object type T, instantiated with a two-valued type.
T == {0, 1}
Labels == 0..MaxLabel

SeqsUpTo(S, n) == UNION {[1..k -> S] : k \in 0..n}

Min(a, b) == IF a < b THEN a ELSE b

\* Option<_>: None carries a default payload that is never read.
None(d) == [some |-> FALSE, v |-> d]
Some(x) == [some |-> TRUE, v |-> x]

----------------------------------------------------------------------------
\* f64 values that occur as scores.  Finite scores are small naturals.
NaN    == 0 - 1
PosInf == 1000
Panics == 0 - 2    \* not a value: the scorer call itself panics

\* f64 comparison a >= b: false as soon as one side is NaN.
Ge(a, b) == a # NaN /\ b # NaN /\ a >= b
\* f64 comparison a > b
Gt(a, b) == a # NaN /\ b # NaN /\ a > b

RECURSIVE Gcd(_, _)
Gcd(a, b) == IF b = 0 THEN a ELSE Gcd(b, a % b)

\* a as f64 / b as f64 for naturals a, b with b > 0, as a reduced fraction.
Div(a, b) == IF b = 0 THEN <<a, 0>> ELSE <<a \div Gcd(a, b), b \div Gcd(a, b)>>

\* f64 comparison p > e of two fractions with positive denominators.
FGt(p, e) == p[1] * e[2] > e[1] * p[2]

Zero == Div(0, 1)

\* Significance levels a caller may pass.
EpsVals == {Div(1, 10), Div(1, 2)}

----------------------------------------------------------------------------
\* The NonConformityScorer capability: score(j, pool), j zero-based.
Abs(a) == IF a < 0 THEN 0 - a ELSE a

Scorers == {"zero", "nn", "nan", "fail"}

Score(n, j, pool) ==
    LET x == pool[j + 1] IN
    CASE n = "zero"  -> 0
      [] n = "nn"    -> LET others == {k \in 1..Len(pool) : k # j + 1}
                            d == {Abs(x - pool[k]) : k \in others}
                        IN  IF d = {} THEN PosInf
                            ELSE CHOOSE m \in d : \A e \in d : m <= e
      [] n = "nan"   -> IF x = 0 THEN 0 ELSE NaN
      [] n = "fail"  -> IF x = 0 THEN 0 ELSE Panics

----------------------------------------------------------------------------
VARIABLES
    ncm,            \* CP.ncm: which scorer
    epsilon,        \* CP.epsilon: Option<f64>
    smooth,         \* CP.smooth
    train_inputs,   \* CP.train_inputs: Option<Vec<Vec<T>>>
    pc,             \* position of the running call
    caller,         \* "predict" when predict_confidence runs inside predict
    inputs,         \* argument of the running / last predict* call
    n_labels, y, n_tmp, i, scores, pvalues,   \* locals of predict_confidence
    calls,          \* the ncm.score invocations of the current (label, object) pair
    result,         \* what the last call handed to its caller
    args,           \* arguments of the last train call
    pre,            \* train_inputs when the last predict_confidence was entered
    prev            \* history: the call before this one, when ReturnRecord kept it

vars == <<ncm, epsilon, smooth, train_inputs, pc, caller, inputs,
          n_labels, y, n_tmp, i, scores, pvalues, calls, result, args, pre,
          prev>>

cp == <<ncm, epsilon, smooth, train_inputs>>
locals == <<n_labels, y, n_tmp, i, scores, pvalues, calls>>

NoArgs == [inputs |-> <<>>, targets |-> <<>>]

\* Matrix<_>: rows, cols and the entries, data[r][c] for r in 1..rows, c in 1..cols.
MatrixOf(rows, cols, v) ==
    [rows |-> rows, cols |-> cols, data |-> [r \in 1..rows |-> [c \in 1..cols |-> v]]]

NoMatrix == MatrixOf(0, 0, Zero)

Ret(op, kind, val, msg) == [op |-> op, kind |-> kind, val |-> val, msg |-> msg]

NoResult == Ret("none", "None", NoMatrix, "")

\* History of the preceding call: what it was, the struct's pools when it
\* returned, its test inputs and the matrix it returned.
NoPrev == [op |-> "none", ti |-> None(<<>>), inputs |-> <<>>, val |-> NoMatrix]

\* xs is a reordering of zs
IsPerm(xs, zs) ==
    /\ Len(xs) = Len(zs)
    /\ \A v \in T : Cardinality({k \in 1..Len(xs) : xs[k] = v})
                     = Cardinality({k \in 1..Len(zs) : zs[k] = v})

\* CP::new
Init ==
    /\ ncm \in Scorers
    /\ epsilon \in {None(Zero)} \cup {Some(e) : e \in EpsVals}
    /\ smooth \in BOOLEAN
    /\ train_inputs = None(<<>>)
    /\ pc = "idle"
    /\ caller = "none"
    /\ inputs = <<>>
    /\ n_labels = 0 /\ y = 0 /\ n_tmp = 0 /\ i = 0
    /\ scores = <<>> /\ pvalues = NoMatrix /\ calls = <<>>
    /\ result = NoResult
    /\ args = NoArgs
    /\ pre = None(<<>>)
    /\ prev = NoPrev

\* The locals of a call that is over are dead.
NoLocals ==
    /\ n_labels' = 0 /\ y' = 0 /\ n_tmp' = 0 /\ i' = 0
    /\ scores' = <<>> /\ pvalues' = NoMatrix /\ calls' = <<>>

\* CP::set_epsilon
set_epsilon ==
    /\ pc = "idle"
    /\ \E e \in EpsVals : epsilon' = Some(e)
    /\ result' = Ret("set_epsilon", "Ok", NoMatrix, "")
    /\ args' = NoArgs /\ inputs' = <<>> /\ pre' = None(<<>>)
    /\ caller' = "none" /\ NoLocals
    /\ pc' = "returned"
    /\ prev' = NoPrev
    /\ UNCHANGED <<ncm, smooth, train_inputs>>

----------------------------------------------------------------------------
\* targets.iter().unique().count()
UniqueCount(targets) == Cardinality({targets[k] : k \in 1..Len(targets)})

\* inputs.iter().zip(targets).fold(vec![vec![]; n], |res, (x, y)| res[y].push(x)):
\* zip stops at the shorter sequence; res[y] with y >= n panics.
RECURSIVE Fold(_, _, _, _)
Fold(res, xs, ys, k) ==
    IF k > Min(Len(xs), Len(ys)) THEN [ok |-> TRUE, res |-> res]
    ELSE IF ys[k] >= Len(res) THEN [ok |-> FALSE, res |-> res]
    ELSE Fold([res EXCEPT ![ys[k] + 1] = Append(@, xs[k])], xs, ys, k + 1)

\* Mutant of Partition: the fold starts at the second pair.
PartitionSkipFirst(xs, ys) == Fold([l \in 1..UniqueCount(ys) |-> <<>>], xs, ys, 2)

\* Mutant of Partition: the fold goes on from the stored pools when their number
\* fits, instead of starting from empty ones.
PartitionOnto(xs, ys) ==
    Fold(IF train_inputs.some /\ Len(train_inputs.v) = UniqueCount(ys)
         THEN train_inputs.v
         ELSE [l \in 1..UniqueCount(ys) |-> <<>>], xs, ys, 1)

Partition(xs, ys) == Fold([l \in 1..UniqueCount(ys) |-> <<>>], xs, ys, 1)

\* Mutant of train: the partition is built in place, so a panicking fold leaves
\* the pools filled so far.
trainInPlace ==
    /\ pc = "idle"
    /\ \E xs \in SeqsUpTo(T, MaxTrain), ys \in SeqsUpTo(Labels, MaxTrain) :
         LET f == Partition(xs, ys) IN
         /\ args' = [inputs |-> xs, targets |-> ys]
         /\ train_inputs' = Some(f.res)
         /\ IF f.ok
            THEN /\ result' = Ret("train", "Ok", NoMatrix, "")
                 /\ pc' = "returned"
            ELSE /\ result' = Ret("train", "Panic", NoMatrix, "index out of bounds")
                 /\ pc' = "panicked"
    /\ inputs' = <<>> /\ pre' = None(<<>>)
    /\ caller' = "none" /\ NoLocals
    /\ prev' = IF prev.op = "train" THEN prev ELSE NoPrev
    /\ UNCHANGED <<ncm, epsilon, smooth>>

\* CP::train
train ==
    /\ pc = "idle"
    /\ \E xs \in SeqsUpTo(T, MaxTrain), ys \in SeqsUpTo(Labels, MaxTrain) :
         LET f == Partition(xs, ys) IN
         /\ args' = [inputs |-> xs, targets |-> ys]
         /\ IF f.ok
            THEN /\ train_inputs' = Some(f.res)
                 /\ result' = Ret("train", "Ok", NoMatrix, "")
                 /\ pc' = "returned"
            ELSE /\ train_inputs' = train_inputs
                 /\ result' = Ret("train", "Panic", NoMatrix, "index out of bounds")
                 /\ pc' = "panicked"
    /\ inputs' = <<>> /\ pre' = None(<<>>)
    /\ caller' = "none" /\ NoLocals
    /\ prev' = IF prev.op = "train" THEN prev ELSE NoPrev
    /\ UNCHANGED <<ncm, epsilon, smooth>>

----------------------------------------------------------------------------
\* predict_confidence, lines 93-102: the entry of the call on test inputs xs.
Enter(xs, who) ==
    /\ inputs' = xs
    /\ args' = NoArgs
    /\ pre' = train_inputs
    /\ caller' = who
    /\ prev' = IF who = "predict_confidence" /\ prev.op = who /\ IsPerm(prev.inputs, xs)
               THEN prev ELSE NoPrev
    /\ IF ~train_inputs.some
       THEN /\ pc' = "panicked"
            /\ result' = Ret(who, "Panic", NoMatrix, "You should train the model first")
            /\ NoLocals
       ELSE /\ pc' = "for_y"
            /\ result' = Ret(who, "Running", NoMatrix, "")
            /\ n_labels' = Len(train_inputs.v)
            /\ pvalues' = MatrixOf(Len(xs), Len(train_inputs.v), Zero)
            /\ y' = 0 /\ i' = 0 /\ n_tmp' = 0 /\ scores' = <<>> /\ calls' = <<>>
    /\ UNCHANGED cp

\* CP::predict_confidence called by the user
predict_confidence ==
    /\ pc = "idle"
    /\ \E xs \in SeqsUpTo(T, MaxTest) : Enter(xs, "predict_confidence")

\* CP::predict, lines 79-81: epsilon.expect(..), then the call of predict_confidence
predict ==
    /\ pc = "idle"
    /\ \E xs \in SeqsUpTo(T, MaxTest) :
         IF ~epsilon.some
         THEN /\ pc' = "panicked"
              /\ result' = Ret("predict", "Panic", NoMatrix,
                               "Specify epsilon to perform a standard predict()")
              /\ inputs' = xs /\ args' = NoArgs /\ pre' = None(<<>>)
              /\ caller' = "predict"
              /\ NoLocals
              /\ prev' = NoPrev
              /\ UNCHANGED cp
         ELSE Enter(xs, "predict")

\* Mutant of NTmp: the test example is not counted.
NTmpTrained(ti, l) == Len(ti[l + 1])

\* train_inputs[y].len() + 1
NTmp(ti, l) == Len(ti[l + 1]) + 1

\* for y in 0..n_labels, lines 107-112, and the return of line 165
ForLabel ==
    /\ pc = "for_y"
    /\ IF y < n_labels
       THEN /\ n_tmp' = NTmp(train_inputs.v, y)
            /\ i' = 0
            /\ pc' = "for_x"
            /\ UNCHANGED <<result, y>>
       ELSE /\ IF caller = "predict"
               THEN pc' = "threshold" /\ UNCHANGED result
               ELSE pc' = "returned" /\ result' = Ret(caller, "Ok", pvalues, "")
            /\ y' = 0 /\ i' = 0 /\ n_tmp' = 0
    /\ UNCHANGED <<cp, caller, inputs, n_labels, scores, pvalues, calls, args, pre,
                   prev>>

\* train_inputs[y].push(x.clone())
Push(ti, l, x) == [ti EXCEPT ![l + 1] = Append(@, x)]

\* Mutant of Pop: the pushed object stays in the pool.
PopNothing(ti, l) == ti

\* Mutant of Pop: the pool loses its first object instead of its last.
PopFront(ti, l) == [ti EXCEPT ![l + 1] = Tail(@)]

\* train_inputs[y].pop()
Pop(ti, l) == [ti EXCEPT ![l + 1] = SubSeq(@, 1, Len(@) - 1)]

\* for (i, x) in inputs.iter().enumerate(), lines 114-122: next object, pushed
ForObject ==
    /\ pc = "for_x"
    /\ IF i < Len(inputs)
       THEN /\ train_inputs' = Some(Push(train_inputs.v, y, inputs[i + 1]))
            /\ pc' = "score"
            /\ UNCHANGED <<y, i>>
       ELSE /\ y' = y + 1
            /\ i' = 0
            /\ pc' = "for_y"
            /\ UNCHANGED train_inputs
    /\ UNCHANGED <<ncm, epsilon, smooth, caller, inputs, n_labels, n_tmp, scores,
                   pvalues, calls, result, args, pre, prev>>

\* (0..n_tmp).map(|j| self.ncm.score(j, train_inputs)).collect()
ScoresOf(n, nt, pool) == [j \in 1..nt |-> Score(n, j - 1, pool)]

\* Mutant of ScoreCalls: the positions are scored on the pool without its last
\* object, the pool before the push.
ScoreCallsBeforePush(nt, pool) ==
    [j \in 1..nt |-> [j |-> j - 1, pool |-> SubSeq(pool, 1, Len(pool) - 1)]]

\* The invocations self.ncm.score(j, train_inputs) for j in 0..n_tmp, in order
ScoreCalls(nt, pool) == [j \in 1..nt |-> [j |-> j - 1, pool |-> pool]]

\* lines 126-133; a panicking invocation is the last one made
ComputeScores ==
    /\ pc = "score"
    /\ LET s == ScoresOf(ncm, n_tmp, train_inputs.v[y + 1])
           c == ScoreCalls(n_tmp, train_inputs.v[y + 1])
       IN
       IF \E j \in 1..Len(s) : s[j] = Panics
       THEN /\ pc' = "panicked"
            /\ result' = Ret(caller, "Panic", NoMatrix, "scorer panicked")
            /\ calls' = SubSeq(c, 1, CHOOSE j \in 1..Len(s) :
                                       /\ s[j] = Panics
                                       /\ \A k \in 1..(j - 1) : s[k] # Panics)
            /\ UNCHANGED scores
       ELSE /\ pc' = "pvalue"
            /\ scores' = s
            /\ calls' = c
            /\ UNCHANGED result
    /\ UNCHANGED <<cp, caller, inputs, n_labels, y, n_tmp, i, pvalues, args, pre, prev>>

\* Mutant of PValue: strict comparison, ties are not counted.
PValueStrict(s, nt) == Div(Cardinality({k \in 1..Len(s) : Gt(s[k], s[nt])}), nt)

\* Mutant of PValue: divided by the size of the trained pool, without the candidate.
PValueOverTrained(s, nt) == Div(Cardinality({k \in 1..Len(s) : Ge(s[k], s[nt])}), nt - 1)

\* Mutant of PValue: only the trained objects are counted, not the candidate.
PValueOthers(s, nt) == Div(Cardinality({k \in 1..(Len(s) - 1) : Ge(s[k], s[nt])}), nt)

\* scores.iter().filter(|&s| *s >= scores[n_tmp-1]).count() as f64 / n_tmp as f64
PValue(s, nt) == Div(Cardinality({k \in 1..Len(s) : Ge(s[k], s[nt])}), nt)

\* lines 137-154
ComputePValue ==
    /\ pc = "pvalue"
    /\ IF smooth
       THEN /\ pc' = "panicked"
            /\ result' = Ret(caller, "Panic", NoMatrix, "not yet implemented")
            /\ UNCHANGED pvalues
       ELSE /\ pc' = "pop"
            /\ pvalues' = [pvalues EXCEPT !.data[i + 1][y + 1] = PValue(scores, n_tmp)]
            /\ UNCHANGED result
    /\ UNCHANGED <<cp, caller, inputs, n_labels, y, n_tmp, i, scores, calls, args, pre,
                   prev>>

\* lines 156-161, and the step of the inner loop
PopObject ==
    /\ pc = "pop"
    /\ train_inputs' = Some(Pop(train_inputs.v, y))
    /\ i' = i + 1
    /\ scores' = <<>> /\ calls' = <<>>
    /\ pc' = "for_x"
    /\ UNCHANGED <<ncm, epsilon, smooth, caller, inputs, n_labels, y, n_tmp,
                   pvalues, result, args, pre, prev>>

\* Matrix::from_fn(rows, cols, f): entry (row, col) is f(col, row)
from_fn(rows, cols, f) ==
    [rows |-> rows, cols |-> cols,
     data |-> [r \in 1..rows |-> [c \in 1..cols |-> f[c, r]]]]

\* Mutant of Preds: inclusive comparison pvalue >= epsilon.
PredsInclusive(pv, eps) ==
    from_fn(pv.rows, pv.cols,
            [j \in 1..pv.cols, k \in 1..pv.rows |-> ~FGt(eps, pv.data[k][j])])

\* Matrix::from_fn(pvalues.rows(), pvalues.cols(), |j, i| pvalues[[i,j]] > epsilon)
Preds(pv, eps) ==
    from_fn(pv.rows, pv.cols,
            [j \in 1..pv.cols, k \in 1..pv.rows |-> FGt(pv.data[k][j], eps)])

\* CP::predict, lines 83-86
Threshold ==
    /\ pc = "threshold"
    /\ result' = Ret("predict", "Ok", Preds(pvalues, epsilon.v), "")
    /\ pc' = "returned"
    /\ UNCHANGED <<cp, caller, inputs, locals, args, pre, prev>>

\* The caller takes the result of the call; the next call may follow.
Return ==
    /\ pc = "returned"
    /\ pc' = "idle"
    /\ result' = NoResult
    /\ args' = NoArgs /\ inputs' = <<>> /\ pre' = None(<<>>)
    /\ caller' = "none" /\ NoLocals
    /\ prev' = NoPrev
    /\ UNCHANGED cp

\* The same step, keeping the history of a train or predict_confidence call
\* that returned Ok, for the properties that relate two calls in a row.
ReturnRecord ==
    /\ pc = "returned"
    /\ pc' = "idle"
    /\ result' = NoResult
    /\ args' = NoArgs /\ inputs' = <<>> /\ pre' = None(<<>>)
    /\ caller' = "none" /\ NoLocals
    /\ prev' = IF result.op \in {"train", "predict_confidence"} /\ result.kind = "Ok"
               THEN [op |-> result.op, ti |-> train_inputs, inputs |-> inputs,
                     val |-> result.val]
               ELSE NoPrev
    /\ UNCHANGED cp

Next ==
    \/ set_epsilon
    \/ train
    \/ predict_confidence
    \/ predict
    \/ ForLabel
    \/ ForObject
    \/ ComputeScores
    \/ ComputePValue
    \/ PopObject
    \/ Threshold
    \/ Return

Spec == Init /\ [][Next]_vars

\* Sequences of train and predict_confidence calls with the history kept.
InitHist == Init /\ ~epsilon.some

NextHist ==
    \/ train
    \/ predict_confidence
    \/ ForLabel
    \/ ForObject
    \/ ComputeScores
    \/ ComputePValue
    \/ PopObject
    \/ ReturnRecord

SpecHist == InitHist /\ [][NextHist]_vars

----------------------------------------------------------------------------
\* Properties.

Returned(op) == pc = "returned" /\ result.op = op /\ result.kind = "Ok"
Ended(op) == pc \in {"returned", "panicked"} /\ result.op = op

\* The inputs whose target is l, in their original order.
RECURSIVE WithTarget(_, _, _)
WithTarget(xs, ys, l) ==
    IF xs = <<>> THEN <<>>
    ELSE IF Head(ys) = l THEN <<Head(xs)>> \o WithTarget(Tail(xs), Tail(ys), l)
    ELSE WithTarget(Tail(xs), Tail(ys), l)

RECURSIVE SumLen(_)
SumLen(pools) == IF pools = <<>> THEN 0 ELSE Len(Head(pools)) + SumLen(Tail(pools))

TargetSet(ys) == {ys[k] : k \in 1..Len(ys)}

\* inputs and targets of equal length, targets dense zero-based label indices
ValidTraining(a) ==
    /\ Len(a.inputs) = Len(a.targets)
    /\ TargetSet(a.targets) = 0..(Cardinality(TargetSet(a.targets)) - 1)

\* C1: for every valid training set, train returns Ok, the pool sizes sum to the
\* number of inputs, and the pool of each label y holds exactly the inputs whose
\* target is y, in their original relative order.
C1_TrainPartitions ==
    (Ended("train") /\ ValidTraining(args)) =>
        /\ result.kind = "Ok"
        /\ train_inputs.some
        /\ Len(train_inputs.v) = Cardinality(TargetSet(args.targets))
        /\ SumLen(train_inputs.v) = Len(args.inputs)
        /\ \A l \in 1..Len(train_inputs.v) :
             train_inputs.v[l] = WithTarget(args.inputs, args.targets, l - 1)

\* A valid training set of two labels, one pool holding two different objects
\* whose order matters.
C1_Witness ==
    /\ Returned("train") /\ ValidTraining(args)
    /\ Len(args.inputs) = MaxTrain
    /\ \E l \in 1..Len(train_inputs.v) :
         /\ Len(train_inputs.v[l]) >= 2
         /\ train_inputs.v[l][1] # train_inputs.v[l][2]

\* The p-value of the formula: the pool of the label with x appended, one score
\* per position, the share of scores >= the last one.
FormulaP(n, pool, x) ==
    LET aug == Append(pool, x)
        ny == Len(pool)
        last == Score(n, ny, aug)
    IN  Div(Cardinality({k \in 0..ny : Ge(Score(n, k, aug), last)}), ny + 1)

\* C2: in non-smoothed mode entry (i, y) of the confidence matrix returned by
\* predict_confidence is count(k in 0..n_y+1 : scores[k] >= scores[n_y]) / (n_y+1),
\* the scores taken on the trained pool of y with x_i appended; ties count fully.
C2_PValueFormula ==
    (Returned("predict_confidence") /\ ~smooth) =>
        /\ result.val.rows = Len(inputs)
        /\ result.val.cols = Len(pre.v)
        /\ \A r \in 1..Len(inputs), c \in 1..Len(pre.v) :
             result.val.data[r][c] = FormulaP(ncm, pre.v[c], inputs[r])

\* An entry where a training object ties with the candidate, another one scores
\* below it, and the tie is counted: 2/3.
C2_Witness ==
    /\ Returned("predict_confidence") /\ ~smooth
    /\ \E r \in 1..Len(inputs), c \in 1..Len(pre.v) :
         LET aug == Append(pre.v[c], inputs[r])
             ny == Len(pre.v[c])
             last == Score(ncm, ny, aug)
         IN  /\ \E k \in 0..(ny - 1) : Score(ncm, k, aug) = last /\ last # NaN
             /\ \E k \in 0..(ny - 1) : ~Ge(Score(ncm, k, aug), last)
             /\ result.val.data[r][c] = Div(2, 3)

\* C3: when predict_confidence returns, every pool is what it was when the call
\* was entered: same size, same ordered contents.
C3_PoolsRestored ==
    (Returned("predict_confidence") \/ Returned("predict")) => train_inputs = pre

\* A call over two labels and two test objects that pushed and popped each of them.
C3_Witness ==
    /\ Returned("predict_confidence") /\ ~smooth
    /\ Len(inputs) = 2 /\ Len(pre.v) = 2
    /\ \E c \in 1..2 : Len(pre.v[c]) >= 1
    /\ train_inputs = pre

InUnit(p) == p[2] > 0 /\ 0 <= p[1] /\ p[1] <= p[2]

\* C4: every entry of every confidence matrix returned by predict_confidence
\* lies in [0,1].
C4_EntriesInUnit ==
    Returned("predict_confidence") =>
        \A r \in 1..result.val.rows, c \in 1..result.val.cols :
            InUnit(result.val.data[r][c])

\* A returned matrix with an entry 0 (a NaN candidate), an entry 1 and one
\* strictly between them.
C4_Witness ==
    /\ Returned("predict_confidence")
    /\ \E r \in 1..result.val.rows, c \in 1..result.val.cols :
         result.val.data[r][c] = Zero
    /\ \E r \in 1..result.val.rows, c \in 1..result.val.cols :
         result.val.data[r][c] = Div(1, 1)
    /\ \E r \in 1..result.val.rows, c \in 1..result.val.cols :
         LET p == result.val.data[r][c] IN 0 < p[1] /\ p[1] < p[2]

\* C5: predict returns a matrix with one row per test object and one column per
\* label whose entry (i, y) is true iff the p-value at (i, y) is strictly greater
\* than epsilon; a p-value equal to epsilon gives false.
C5_RegionStrict ==
    Returned("predict") =>
        /\ result.val.rows = Len(inputs)
        /\ result.val.cols = Len(pre.v)
        /\ \A r \in 1..Len(inputs), c \in 1..Len(pre.v) :
             LET p == pvalues.data[r][c] IN
             /\ result.val.data[r][c] \in BOOLEAN
             /\ result.val.data[r][c] <=> p[1] * epsilon.v[2] > epsilon.v[1] * p[2]
             /\ p = epsilon.v => result.val.data[r][c] = FALSE

\* A region matrix that is not square, with a p-value equal to epsilon (false)
\* and a p-value above it (true).
C5_Witness ==
    /\ Returned("predict")
    /\ result.val.rows # result.val.cols
    /\ \E r \in 1..Len(inputs), c \in 1..Len(pre.v) :
         pvalues.data[r][c] = epsilon.v /\ result.val.data[r][c] = FALSE
    /\ \E r \in 1..Len(inputs), c \in 1..Len(pre.v) :
         result.val.data[r][c] = TRUE

Failed(err) == pc = "returned" /\ result.kind = "Err" /\ result.msg = err

\* C6: predict_confidence on a predictor on which no train has succeeded fails
\* with NotTrained, returned to the caller as a typed result.
C6_NotTrainedIsResult ==
    (Ended("predict_confidence") /\ ~pre.some) => Failed("NotTrained")

\* C7: predict on a predictor whose epsilon has not been set fails with
\* EpsilonNotSet, returned to the caller as a typed result.
C7_EpsilonNotSetIsResult ==
    (Ended("predict") /\ ~epsilon.some) => Failed("EpsilonNotSet")

\* C8: train fails with InvalidInput whenever inputs and targets differ in
\* length; it never returns success with a partition built from a prefix.
C8_LengthMismatchIsResult ==
    (Ended("train") /\ Len(args.inputs) # Len(args.targets)) => Failed("InvalidInput")

\* C9: train fails with InvalidInput, as a typed result, whenever some target is
\* not below the number of distinct values occurring in targets.  Stated for
\* inputs and targets of equal length, the case that C8 does not already cover.
C9_SparseLabelsIsResult ==
    (/\ Ended("train")
     /\ Len(args.inputs) = Len(args.targets)
     /\ \E k \in 1..Len(args.targets) : args.targets[k] >= UniqueCount(args.targets))
        => Failed("InvalidInput")

\* C10: with smooth = true every predict_confidence call on a trained predictor,
\* the one on no test inputs included, fails with NotImplemented and never
\* returns a confidence matrix.
C10_SmoothNotImplemented ==
    (Ended("predict_confidence") /\ smooth /\ pre.some) => Failed("NotImplemented")

\* The scores the scorer gives on the pool of label column c with test object r
\* appended, as the call entered with pools pre sees them.
AugScore(r, c, k) == Score(ncm, k, Append(pre.v[c], inputs[r]))

NonFinite(s) == s = NaN \/ s = PosInf

\* C11: predict_confidence fails with ScoringError whenever the scorer returns a
\* non-finite value for some position of some augmented pool; it never returns
\* a confidence matrix computed from a non-finite score.  Stated for the
\* non-smoothed mode, where the p-value is computed.
C11_NonFiniteIsScoringError ==
    (/\ Ended("predict_confidence") /\ pre.some /\ ~smooth
     /\ \E r \in 1..Len(inputs), c \in 1..Len(pre.v) :
          \E k \in 0..Len(pre.v[c]) : NonFinite(AugScore(r, c, k)))
        => Failed("ScoringError")

\* C13: with the scorer that returns 0 everywhere, in non-smoothed mode, every
\* entry of the confidence matrix is exactly 1.0.
C13_ZeroScorerAllOnes ==
    (Returned("predict_confidence") /\ ncm = "zero" /\ ~smooth) =>
        \A r \in 1..result.val.rows, c \in 1..result.val.cols :
            result.val.data[r][c] = Div(1, 1)

\* The zero scorer on two labels with pools of different sizes and two objects.
C13_Witness ==
    /\ Returned("predict_confidence") /\ ncm = "zero" /\ ~smooth
    /\ result.val.rows = 2 /\ result.val.cols = 2
    /\ Len(pre.v[1]) # Len(pre.v[2])
    /\ result.val.data[2][2] = Div(1, 1)

\* C15: on every exit path of predict_confidence, a scorer failure and the
\* failure raised for smoothing included, every pool has its pre-call contents.
C15_RestoredOnEveryExit ==
    ((Ended("predict_confidence") \/ Ended("predict")) /\ pre.some)
        => train_inputs = pre

\* C17: during predict_confidence the pools hold at most one object that train
\* did not place, at the end of the pool of the label being processed; at the
\* start of each (label, object) iteration that pool has its trained length,
\* and n_tmp is the length of the pool whenever scores are computed.
C17_OneForeignObject ==
    /\ pc \in {"for_y", "for_x", "threshold"} => train_inputs = pre
    /\ pc = "for_x" => n_tmp = Len(pre.v[y + 1]) + 1
    /\ pc \in {"score", "pvalue", "pop"} =>
         /\ y < Len(pre.v) /\ i < Len(inputs)
         /\ train_inputs.v = [pre.v EXCEPT ![y + 1] = pre.v[y + 1] \o <<inputs[i + 1]>>]
         /\ n_tmp = Len(train_inputs.v[y + 1])
         /\ SumLen(train_inputs.v) = SumLen(pre.v) + 1

\* The second test object sits in the non-empty pool of the second label, about
\* to be scored, after three earlier iterations.
C17_Witness ==
    /\ pc = "score" /\ y = 1 /\ i = 1
    /\ Len(pre.v[2]) >= 1
    /\ train_inputs.v[2] = Append(pre.v[2], inputs[2])

\* The largest trained pool size of the call.
MaxPool(pools) ==
    IF pools = <<>> THEN 0
    ELSE CHOOSE m \in {Len(pools[c]) : c \in 1..Len(pools)} :
            \A c \in 1..Len(pools) : Len(pools[c]) <= m

\* No candidate gets a NaN score.
NoNaNCandidate ==
    \A r \in 1..Len(inputs), c \in 1..Len(pre.v) : AugScore(r, c, Len(pre.v[c])) # NaN

\* C19: in non-smoothed mode, when no candidate's score is NaN, every p-value is
\* at least 1/(n_y+1), hence positive; predict with epsilon < 1/(max_y n_y + 1)
\* then puts every label in every object's region.
C19_CandidateCountsItself ==
    /\ (Returned("predict_confidence") /\ ~smooth /\ NoNaNCandidate) =>
         \A r \in 1..Len(inputs), c \in 1..Len(pre.v) :
             LET p == result.val.data[r][c] IN
             /\ p[1] * (Len(pre.v[c]) + 1) >= p[2]
             /\ p[1] > 0
    /\ (/\ Returned("predict") /\ ~smooth /\ NoNaNCandidate
        /\ epsilon.v[1] * (MaxPool(pre.v) + 1) < epsilon.v[2]) =>
         \A r \in 1..Len(inputs), c \in 1..Len(pre.v) : result.val.data[r][c] = TRUE

\* predict with epsilon = 1/10 over a pool of two where the candidate alone
\* reaches its own score: the p-value is the minimum 1/3 and the label is kept.
C19_Witness ==
    /\ Returned("predict") /\ ~smooth /\ NoNaNCandidate
    /\ epsilon.v = Div(1, 10)
    /\ \E r \in 1..Len(inputs), c \in 1..Len(pre.v) :
         /\ Len(pre.v[c]) = 2
         /\ pvalues.data[r][c] = Div(1, 3)
         /\ result.val.data[r][c] = TRUE

\* C20: a train call that panics on a target out of the dense range leaves the
\* stored partition (or the untrained state), epsilon and smooth as they were.
C20_FailedTrainChangesNothing ==
    [][(pc = "idle" /\ pc' = "panicked" /\ result'.op = "train")
         => (train_inputs' = train_inputs /\ epsilon' = epsilon /\ smooth' = smooth
             /\ ncm' = ncm)]_vars

\* A panicking train on a predictor that holds a non-empty partition.
C20_Witness ==
    /\ pc = "panicked" /\ result.op = "train"
    /\ train_inputs.some /\ SumLen(train_inputs.v) >= 1
    /\ \E k \in 1..Min(Len(args.inputs), Len(args.targets)) :
         args.targets[k] >= UniqueCount(args.targets)

\* C18: for each (label y, object x) pair the scorer is invoked exactly once for
\* each position 0..n_y, in ascending order, each time on the pool of y with x
\* appended, after the push and before the pop; nothing is kept for the next
\* object.
C18_ScorerInvocations ==
    /\ pc \in {"pvalue", "pop"} =>
         LET aug == Append(pre.v[y + 1], inputs[i + 1]) IN
         /\ Len(calls) = Len(pre.v[y + 1]) + 1
         /\ \A j \in 1..Len(calls) : calls[j].j = j - 1 /\ calls[j].pool = aug
         /\ train_inputs.v[y + 1] = aug
         /\ scores = [j \in 1..Len(calls) |-> Score(ncm, calls[j].j, calls[j].pool)]
    /\ pc \in {"for_y", "for_x", "score", "threshold", "returned"} =>
         calls = <<>> /\ scores = <<>>

\* The second object of a call scored on a pool of two, where the first object
\* was different: three invocations, none of them sees the first object.
C18_Witness ==
    /\ pc = "pvalue" /\ i = 1 /\ inputs[1] # inputs[2]
    /\ Len(pre.v[y + 1]) = 2
    /\ Len(calls) = 3
    /\ calls[3].pool[3] = inputs[2]

\* C12: with a deterministic scorer in non-smoothed mode, predict_confidence
\* called twice in a row on the same trained predictor with the same test inputs
\* returns the same confidence matrix both times.
C12_Idempotent ==
    (/\ Returned("predict_confidence") /\ ~smooth
     /\ prev.op = "predict_confidence" /\ prev.inputs = inputs)
        => result.val = prev.val

\* Two calls in a row on two test objects and a pool of two, the matrix holding
\* an entry strictly between 0 and 1.
C12_Witness ==
    /\ Returned("predict_confidence") /\ ~smooth
    /\ prev.op = "predict_confidence" /\ prev.inputs = inputs
    /\ Len(inputs) = 2
    /\ \E c \in 1..Len(pre.v) :
         /\ Len(pre.v[c]) = 2
         /\ \E r \in 1..2 : LET p == result.val.data[r][c] IN 0 < p[1] /\ p[1] < p[2]

\* What train on a fresh predictor stores for these arguments: one pool per
\* distinct target, filled from the pairs that zip yields.
FreshPartition(a) ==
    LET m == Min(Len(a.inputs), Len(a.targets)) IN
    [l \in 1..Cardinality(TargetSet(a.targets)) |->
        WithTarget(SubSeq(a.inputs, 1, m), SubSeq(a.targets, 1, m), l - 1)]

\* C14: train replaces any prior training state: after a successful train the
\* stored partition and the number of labels are those of the same train on a
\* fresh predictor, whatever was stored before; nothing of it remains.
C14_TrainReplaces ==
    Returned("train") =>
        /\ train_inputs = Some(FreshPartition(args))
        /\ SumLen(train_inputs.v) = Min(Len(args.inputs), Len(args.targets))

\* train(B) returned after train(A) had stored more labels and other objects.
C14_Witness ==
    /\ Returned("train") /\ prev.op = "train"
    /\ Len(prev.ti.v) > Len(train_inputs.v)
    /\ SumLen(prev.ti.v) >= 1 /\ SumLen(train_inputs.v) >= 1
    /\ \A l \in 1..Len(train_inputs.v) : train_inputs.v[l] # prev.ti.v[l]

====
